---- MODULE Spec2Model ----
(*************************************************************************)
(* Model of functions/word_labeller.py (EyeSort): the word-position      *)
(* builder fill_word_labels, the interest-area resolver                  *)
(* find_interest_area and the row-wise pipeline of main.                 *)
(*                                                                       *)
(* Python values are records tagged with their type, so that a str, an   *)
(* int, a float NaN and None stay distinct:                              *)
(*   a cell text is [type |-> "str", chars |-> <<"a", " ", ...>>],       *)
(*   a label or sentinel is [type |-> "str", s |-> "1.1"],               *)
(*   a pixel coordinate is [type |-> "int", n |-> 290].                  *)
(* A call's outcome is [outcome |-> "return", value |-> v] or            *)
(* [outcome |-> "raise", exc |-> "ValueError"].                          *)
(*************************************************************************)
EXTENDS Integers, Sequences, FiniteSets, TLC

\* ----------------------------------------------------------------------
\* Program constants (word_labeller.py lines 31 and 33)
\* ----------------------------------------------------------------------
Offset == 281
PPC == 14

\* ----------------------------------------------------------------------
\* Bounds of the model
\* ----------------------------------------------------------------------
\* longest enumerated cell text, in characters
MaxLen == 3
\* how far left of Offset and right of the sentence's end fixations are drawn
FixMargin == 2
\* resolver checked alone: largest endpoint and most entries of a position map
MaxCoord == 3
MaxEntries == 2

\* ----------------------------------------------------------------------
\* Python values
\* ----------------------------------------------------------------------
PyNone == [type |-> "NoneType"]
PyStr(s) == [type |-> "str", s |-> s]
PyInt(n) == [type |-> "int", n |-> n]
PyTuple(a, b) == [type |-> "tuple", items |-> <<a, b>>]
PyList(a, b) == [type |-> "list", items |-> <<a, b>>]
Text(chars) == [type |-> "str", chars |-> chars]
\* an empty spreadsheet cell, as pandas.read_excel gives it
NaN == [type |-> "float", nan |-> TRUE]
Return(v) == [outcome |-> "return", value |-> v]
Raise(e) == [outcome |-> "raise", exc |-> e]

Whitespace == {" ", "\t"}
Alphabet == {"a", " "}
Regions == 1..4

\* all character sequences over Alphabet of length at most n
RECURSIVE CharSeqs(_)
CharSeqs(n) ==
    IF n = 0 THEN {<<>>}
    ELSE LET shorter == CharSeqs(n - 1)
         IN  shorter \cup {Append(s, c) : s \in {t \in shorter : Len(t) = n - 1}, c \in Alphabet}

\* the scenario row of the header comment (lines 7-11)
ScenarioRow ==
    [r \in Regions |->
        CASE r = 1 -> Text(<<"I", " ", "d", "i", "d", " ", "n", "o", "t">>)
          [] r = 2 -> Text(<<"g", "o", " ", "t", "o">>)
          [] r = 3 -> Text(<<"s", "c", "h", "o", "o", "l">>)
          [] r = 4 -> Text(<<"a", "n", "d", " ", "s", "t", "a", "y", "e", "d", " ",
                             "h", "o", "m", "e", ".">>)]

\* the cells a region column may hold in an enumerated row
Cells == {Text(s) : s \in CharSeqs(MaxLen)} \cup {NaN}

\* ----------------------------------------------------------------------
\* str(region_sentence).split()   (line 58)
\* ----------------------------------------------------------------------
\* str(v): a str is itself, the float NaN prints as "nan"
Str(v) == IF v.type = "str" THEN v.chars ELSE <<"n", "a", "n">>

\* str.split() without arguments: maximal runs of non-whitespace characters
RECURSIVE SplitFrom(_, _, _, _)
SplitFrom(s, i, word, acc) ==
    IF i > Len(s)
    THEN IF word = <<>> THEN acc ELSE Append(acc, word)
    ELSE IF s[i] \in Whitespace
         THEN SplitFrom(s, i + 1, <<>>, IF word = <<>> THEN acc ELSE Append(acc, word))
         ELSE SplitFrom(s, i + 1, Append(word, s[i]), acc)

Split(s) == SplitFrom(s, 1, <<>>, <<>>)

\* f"{region}.{index}"   (line 60)
Key(region, index) == ToString(region) \o "." \o ToString(index)

\* ----------------------------------------------------------------------
\* dict: insertion-ordered sequence of <<key, value>> items
\* ----------------------------------------------------------------------
DictKeys(d) == {d[i][1] : i \in 1..Len(d)}

\* d[key] = value: replaces the value of an existing key in place, else appends
DictSet(d, key, value) ==
    IF key \in DictKeys(d)
    THEN [i \in 1..Len(d) |-> IF d[i][1] = key THEN <<key, value>> ELSE d[i]]
    ELSE Append(d, <<key, value>>)

\* ----------------------------------------------------------------------
\* fill_word_labels   (lines 40-71)
\* ----------------------------------------------------------------------
VARIABLES
    pc,                    \* position of the pipeline within the current row
    rows_before,           \* whether apply has processed a row before the current one
    row_source,            \* "scenario": the row is ScenarioRow; "enumerated": any row over Cells
    region_sentence,       \* argument of the latest word_labeller call
    word_labels,           \* fill_word_labels local (line 51)
    last_word_ending_pos,  \* fill_word_labels local (line 52)
    odd_space,             \* fill_word_labels local (line 53)
    WordPositions,         \* the row's WordPositions cell: the serialized map
    fixation,              \* argument of the latest find_interest_area call
    result                 \* outcome of the latest find_interest_area call

vars == <<pc, rows_before, row_source, region_sentence, word_labels, last_word_ending_pos,
          odd_space, WordPositions, fixation, result>>

\* mutant of LoopBody: the separating space is put between the intervals
LoopBody_Gap(st, region, index, word) ==
    LET key == Key(region, index)
        start == st.last_word_ending_pos + st.odd_space
        end == start + PPC * Len(word)
    IN  [word_labels |-> DictSet(st.word_labels, key, PyTuple(start, end)),
         last_word_ending_pos |-> end,
         odd_space |-> 1]

\* mutant of LoopBody: every word, the first one too, is widened by a space
LoopBody_AlwaysSpace(st, region, index, word) ==
    LET key == Key(region, index)
        start == st.last_word_ending_pos
        end == start + PPC * (Len(word) + 1)
    IN  [word_labels |-> DictSet(st.word_labels, key, PyTuple(start, end)),
         last_word_ending_pos |-> end,
         odd_space |-> 1]

\* body of the for loop (lines 60-65) on the closure state st
LoopBody(st, region, index, word) ==
    LET key == Key(region, index)
        start == st.last_word_ending_pos
        end == start + PPC * (Len(word) + st.odd_space)
    IN  [word_labels |-> DictSet(st.word_labels, key, PyTuple(start, end)),
         last_word_ending_pos |-> end,
         odd_space |-> 1]

\* for index, word in enumerate(words, start=1)   (line 59)
RECURSIVE ForWords(_, _, _, _)
ForWords(st, region, words, index) ==
    IF index > Len(words) THEN st
    ELSE ForWords(LoopBody(st, region, index, words[index]), region, words, index + 1)

\* word_labeller(region, region_sentence)   (lines 55-65), on the closure state
WordLabellerResult(st, region, sentence) ==
    ForWords(st, region, Split(Str(sentence)), 1)

\* mutant of FreshClosure: cursor and flag are kept from the call before
FreshClosure_Carry ==
    [word_labels |-> <<>>, last_word_ending_pos |-> last_word_ending_pos,
     odd_space |-> odd_space]

\* lines 51-53: the closure state every fill_word_labels call starts from
FreshClosure ==
    [word_labels |-> <<>>, last_word_ending_pos |-> Offset, odd_space |-> 0]

\* ----------------------------------------------------------------------
\* json.dumps(word_labels) (line 71) and ast.literal_eval(positions) (line 85)
\* The serialized map is a sequence of tokens of the text.
\* ----------------------------------------------------------------------
Punct(c) == [tok |-> c]
StrTok(s) == [tok |-> "str", s |-> s]
IntTok(n) == [tok |-> "int", n |-> n]
NameTok(s) == [tok |-> "name", s |-> s]

\* "key": [a, b] for each item, separated by commas; a tuple is written as an array
RECURSIVE JsonItems(_, _)
JsonItems(d, i) ==
    IF i > Len(d) THEN <<>>
    ELSE (IF i > 1 THEN <<Punct(",")>> ELSE <<>>)
         \o <<StrTok(d[i][1]), Punct(":"), Punct("["), IntTok(d[i][2].items[1]),
              Punct(","), IntTok(d[i][2].items[2]), Punct("]")>>
         \o JsonItems(d, i + 1)

JsonDumps(d) == <<Punct("{")>> \o JsonItems(d, 1) \o <<Punct("}")>>

\* the item starting at token i is  "key" : [ int , int ]
IsItemAt(toks, i) ==
    /\ i + 6 <= Len(toks)
    /\ toks[i].tok = "str"
    /\ toks[i + 1].tok = ":"
    /\ toks[i + 2].tok = "["
    /\ toks[i + 3].tok = "int"
    /\ toks[i + 4].tok = ","
    /\ toks[i + 5].tok = "int"
    /\ toks[i + 6].tok = "]"

RECURSIVE ParseItems(_, _, _)
ParseItems(toks, i, acc) ==
    IF ~IsItemAt(toks, i) \/ i + 7 > Len(toks) THEN Raise("SyntaxError")
    ELSE LET d == DictSet(acc, toks[i].s, PyList(toks[i + 3].n, toks[i + 5].n))
         IN  IF toks[i + 7].tok = "}"
             THEN IF i + 7 = Len(toks) THEN Return(d) ELSE Raise("SyntaxError")
             ELSE IF toks[i + 7].tok = ","
                  THEN ParseItems(toks, i + 8, d)
                  ELSE Raise("SyntaxError")

\* ast.literal_eval of a text: a dict display of str keys and two-int lists
\* evaluates to that dict (an array reads back as a list); any other text raises
LiteralEval(toks) ==
    IF Len(toks) < 2 \/ toks[1].tok # "{" THEN Raise("SyntaxError")
    ELSE IF toks[2].tok = "}"
         THEN IF Len(toks) = 2 THEN Return(<<>>) ELSE Raise("SyntaxError")
         ELSE ParseItems(toks, 2, <<>>)

\* ----------------------------------------------------------------------
\* find_interest_area   (lines 74-96)
\* ----------------------------------------------------------------------
SeqMin(s) == CHOOSE m \in {s[i] : i \in 1..Len(s)} : \A i \in 1..Len(s) : m <= s[i]
SeqMax(s) == CHOOSE m \in {s[i] : i \in 1..Len(s)} : \A i \in 1..Len(s) : m >= s[i]

\* mutant of InInterval: left-closed, right-open
InInterval_LeftClosed(x_min, x, x_max) == x_min <= x /\ x < x_max

\* line 87: x_min < fixation <= x_max
InInterval(x_min, x, x_max) == x_min < x /\ x <= x_max

\* lines 86-88: index of the first item whose interval holds x, 0 when none does
FirstMatch(word_positions, x) ==
    LET hits == {i \in 1..Len(word_positions) :
                    InInterval(word_positions[i][2].items[1], x,
                               word_positions[i][2].items[2])}
    IN  IF hits = {} THEN 0 ELSE CHOOSE i \in hits : \A j \in hits : i <= j

\* line 89: [value for tup in word_positions.values() for value in tup]
RECURSIVE AllValues(_, _)
AllValues(word_positions, i) ==
    IF i > Len(word_positions) THEN <<>>
    ELSE word_positions[i][2].items \o AllValues(word_positions, i + 1)

\* mutant of Fallback: the two sentinels are exchanged
Fallback_Swapped(all_values, x) ==
    IF all_values = <<>> THEN Raise("ValueError")
    ELSE IF x = SeqMin(all_values) THEN Return(PyStr("1.1"))
    ELSE IF x < SeqMin(all_values) THEN Return(PyStr("right"))
    ELSE IF x > SeqMax(all_values) THEN Return(PyStr("left"))
    ELSE Return(PyNone)

\* mutant of Fallback: no special case for the left edge
Fallback_NoEdge(all_values, x) ==
    IF all_values = <<>> THEN Raise("ValueError")
    ELSE IF x <= SeqMin(all_values) THEN Return(PyStr("left"))
    ELSE IF x > SeqMax(all_values) THEN Return(PyStr("right"))
    ELSE Return(PyNone)

\* lines 90-96; min() and max() of an empty list raise ValueError
Fallback(all_values, x) ==
    IF all_values = <<>> THEN Raise("ValueError")
    ELSE IF x = SeqMin(all_values) THEN Return(PyStr("1.1"))
    ELSE IF x < SeqMin(all_values) THEN Return(PyStr("left"))
    ELSE IF x > SeqMax(all_values) THEN Return(PyStr("right"))
    ELSE Return(PyNone)

\* lines 85-96, for a numeric fixation x
Lookup(positions, x) ==
    LET ev == LiteralEval(positions)
    IN  IF ev.outcome = "raise" THEN ev
        ELSE LET word_positions == ev.value
                 hit == FirstMatch(word_positions, x)
             IN  IF hit # 0 THEN Return(PyStr(word_positions[hit][1]))
                 ELSE Fallback(AllValues(word_positions, 1), x)

\* mutant of find_interest_area: the map is deserialized before the sentinel test
find_interest_area_EvalFirst(positions, fix) ==
    IF LiteralEval(positions).outcome = "raise" THEN LiteralEval(positions)
    ELSE IF fix = PyStr(".") THEN Return(fix)
    ELSE Lookup(positions, fix.n)

\* lines 83-96
find_interest_area(positions, fix) ==
    IF fix = PyStr(".") THEN Return(fix)
    ELSE Lookup(positions, fix.n)

\* ----------------------------------------------------------------------
\* The pipeline, one row at a time   (main, lines 99-110)
\* DataFrame.apply(axis=1) calls the function once per row, and a row's
\* cells are read only by the calls made for that row.
\* ----------------------------------------------------------------------
NoCall == Raise("not called")

Init ==
    /\ pc = "fill_word_labels"
    /\ rows_before = FALSE
    /\ row_source \in {"scenario", "enumerated"}
    /\ region_sentence = Text(<<>>)
    /\ word_labels = <<>>
    /\ last_word_ending_pos = Offset
    /\ odd_space = 0
    /\ WordPositions = <<>>
    /\ fixation = PyStr(".")
    /\ result = NoCall

\* the cells row[column] may hold for the region being labelled
RowCells(region) ==
    IF row_source = "scenario" THEN {ScenarioRow[region]} ELSE Cells

\* fill_word_labels is entered: lines 51-53
EnterFillWordLabels ==
    /\ pc = "fill_word_labels"
    /\ word_labels' = FreshClosure.word_labels
    /\ last_word_ending_pos' = FreshClosure.last_word_ending_pos
    /\ odd_space' = FreshClosure.odd_space
    /\ pc' = "word_labeller_1"
    /\ UNCHANGED <<rows_before, row_source, region_sentence, WordPositions, fixation, result>>

RegionAt(p) ==
    CASE p = "word_labeller_1" -> 1
      [] p = "word_labeller_2" -> 2
      [] p = "word_labeller_3" -> 3
      [] p = "word_labeller_4" -> 4
      [] OTHER -> 0

AfterRegion(region) ==
    CASE region = 1 -> "word_labeller_2"
      [] region = 2 -> "word_labeller_3"
      [] region = 3 -> "word_labeller_4"
      [] OTHER -> "return"

\* lines 67-70: word_labeller(region, row[column])
WordLabeller(region) ==
    /\ pc = "word_labeller_" \o ToString(region)
    /\ \E sentence \in RowCells(region) :
          LET st == WordLabellerResult(
                        [word_labels |-> word_labels,
                         last_word_ending_pos |-> last_word_ending_pos,
                         odd_space |-> odd_space], region, sentence)
          IN  /\ region_sentence' = sentence
              /\ word_labels' = st.word_labels
              /\ last_word_ending_pos' = st.last_word_ending_pos
              /\ odd_space' = st.odd_space
    /\ pc' = AfterRegion(region)
    /\ UNCHANGED <<rows_before, row_source, WordPositions, fixation, result>>

\* line 71 and line 101: fill_word_labels returns the row's WordPositions cell
ReturnWordPositions ==
    /\ pc = "return"
    /\ WordPositions' = JsonDumps(word_labels)
    /\ region_sentence' = Text(<<>>)
    /\ pc' = "current_fix"
    /\ UNCHANGED <<rows_before, row_source, word_labels, last_word_ending_pos, odd_space,
                   fixation, result>>

\* the values a CURRENT_FIX_X or NEXT_FIX_X cell may hold for this row
Fixations ==
    {PyInt(x) : x \in (Offset - FixMargin)..(last_word_ending_pos + FixMargin)}
        \cup {PyStr(".")}

\* line 104: find_interest_area(row["WordPositions"], row["CURRENT_FIX_X"])
ResolveCurrentFix ==
    /\ pc = "current_fix"
    /\ \E fix \in Fixations :
          /\ fixation' = fix
          /\ result' = find_interest_area(WordPositions, fix)
    /\ pc' = "current_fix_returned"
    /\ UNCHANGED <<rows_before, row_source, region_sentence, word_labels, last_word_ending_pos,
                   odd_space, WordPositions>>

\* line 103: the value goes to CURRENT_FIX_INTEREST_AREA_ID, which nothing reads
\* again; an exception ends the run
AssignCurrentFix ==
    /\ pc = "current_fix_returned"
    /\ result.outcome = "return"
    /\ fixation' = PyStr(".")
    /\ result' = NoCall
    /\ pc' = "next_fix"
    /\ UNCHANGED <<rows_before, row_source, region_sentence, word_labels, last_word_ending_pos,
                   odd_space, WordPositions>>

\* line 109: find_interest_area(row["WordPositions"], row["NEXT_FIX_X"])
ResolveNextFix ==
    /\ pc = "next_fix"
    /\ \E fix \in Fixations :
          /\ fixation' = fix
          /\ result' = find_interest_area(WordPositions, fix)
    /\ pc' = "next_fix_returned"
    /\ UNCHANGED <<rows_before, row_source, region_sentence, word_labels, last_word_ending_pos,
                   odd_space, WordPositions>>

\* line 108: the value goes to NEXT_FIX_INTEREST_AREA_ID and apply moves on to
\* the next row; the locals of the last fill_word_labels call are whatever
\* that call left
NextRow ==
    /\ pc = "next_fix_returned"
    /\ result.outcome = "return"
    /\ pc' = "fill_word_labels"
    /\ rows_before' = TRUE
    /\ row_source' \in {"scenario", "enumerated"}
    /\ WordPositions' = <<>>
    /\ fixation' = PyStr(".")
    /\ result' = NoCall
    /\ UNCHANGED <<region_sentence, word_labels, last_word_ending_pos, odd_space>>

Next ==
    \/ EnterFillWordLabels
    \/ \E region \in Regions : WordLabeller(region)
    \/ ReturnWordPositions
    \/ ResolveCurrentFix
    \/ AssignCurrentFix
    \/ ResolveNextFix
    \/ NextRow

Spec == Init /\ [][Next]_vars

\* ----------------------------------------------------------------------
\* find_interest_area alone, on any position map
\* ----------------------------------------------------------------------
Coords == 0..MaxCoord

\* dicts of at most n items; the items of one dict are labelled region.1, region.2, ...
RECURSIVE DictsOf(_, _)
DictsOf(region, n) ==
    IF n = 0 THEN {<<>>}
    ELSE LET shorter == DictsOf(region, n - 1)
         IN  shorter \cup
             {Append(d, <<Key(region, n), PyList(a, b)>>) :
                 d \in {e \in shorter : Len(e) = n - 1}, a \in Coords, b \in Coords}

\* the texts passed as positions: serialized dicts, the empty text and the text nan
PositionTexts ==
    {JsonDumps(d) : d \in DictsOf(1, MaxEntries) \cup DictsOf(2, MaxEntries)}
        \cup {<<>>, <<NameTok("nan")>>}

ResolverFixations ==
    {PyInt(x) : x \in (0 - FixMargin)..(MaxCoord + FixMargin)} \cup {PyStr(".")}

InitResolver ==
    /\ pc = "current_fix"
    /\ rows_before = FALSE
    /\ row_source = "enumerated"
    /\ region_sentence = Text(<<>>)
    /\ word_labels = <<>>
    /\ last_word_ending_pos = Offset
    /\ odd_space = 0
    /\ WordPositions \in PositionTexts
    /\ fixation = PyStr(".")
    /\ result = NoCall

\* find_interest_area(positions, fixation), lines 74-96
CallFindInterestArea ==
    /\ pc = "current_fix"
    /\ \E fix \in ResolverFixations :
          /\ fixation' = fix
          /\ result' = find_interest_area(WordPositions, fix)
    /\ pc' = "current_fix_returned"
    /\ UNCHANGED <<rows_before, row_source, region_sentence, word_labels,
                   last_word_ending_pos, odd_space, WordPositions>>

NextResolver == CallFindInterestArea

SpecResolver == InitResolver /\ [][NextResolver]_vars

\* ----------------------------------------------------------------------
\* Properties
\* ----------------------------------------------------------------------
Returned == pc \in {"current_fix_returned", "next_fix_returned"}
IntervalStart(item) == item[2].items[1]
IntervalEnd(item) == item[2].items[2]
LabelOf(item) == item[1]

\* the endpoints of all intervals of a dict
Endpoints(d) == UNION {{IntervalStart(d[i]), IntervalEnd(d[i])} : i \in 1..Len(d)}

\* C1: in the order the words were labelled (regions 1 to 4, word order within
\* a region) the end of each interval is the start of the next one.
C1_IntervalsAbut ==
    \A i \in 1..(Len(word_labels) - 1) :
        IntervalEnd(word_labels[i]) = IntervalStart(word_labels[i + 1])

\* a finished map with two words in region 1 and a word in region 3 after an
\* empty region 2
C1_Witness ==
    /\ pc = "current_fix"
    /\ Len(word_labels) >= 3
    /\ {"1.1", "1.2", "3.1"} \subseteq DictKeys(word_labels)
    /\ "2.1" \notin DictKeys(word_labels)

\* a region whose cell is empty, whitespace-only or not a string
IsEmptyRegion(cell) ==
    \/ cell.type # "str"
    \/ \A i \in 1..Len(cell.chars) : cell.chars[i] \in Whitespace

\* C2: a word_labeller call on an empty, whitespace-only or non-string region
\* adds no label and leaves the cursor where it was.
C2_EmptyRegionAddsNothing ==
    [][(RegionAt(pc) # 0 /\ pc' # pc /\ IsEmptyRegion(region_sentence'))
          => (word_labels' = word_labels /\ last_word_ending_pos' = last_word_ending_pos)]_vars

\* the dict a parsable positions text holds
DictOf(positions) == LiteralEval(positions).value

\* x lies in an internal gap of d: in no interval, not the minimum endpoint,
\* not below it and not above the maximum endpoint
InGap(d, x) ==
    /\ d # <<>>
    /\ \A i \in 1..Len(d) : ~(IntervalStart(d[i]) < x /\ x <= IntervalEnd(d[i]))
    /\ \E e \in Endpoints(d) : e < x
    /\ \E e \in Endpoints(d) : e > x

\* C3: for a numeric fixation in an internal gap find_interest_area returns an
\* explicit marker: it neither returns None nor raises.
C3_GapIsMarked ==
    (/\ pc = "current_fix_returned"
     /\ fixation.type = "int"
     /\ LiteralEval(WordPositions).outcome = "return"
     /\ InGap(DictOf(WordPositions), fixation.n))
        => (result.outcome = "return" /\ result.value # PyNone)

\* C4: a numeric fixation f resolves to the word of the row's map whose interval
\* has start < f <= end, so a fixation on a word's right edge resolves to that
\* word; on the scenario row 290 and 295 resolve to 1.1 and 296 to 1.2.
C4_RightClosedLookup ==
    (Returned /\ fixation.type = "int") =>
        /\ \A i \in 1..Len(word_labels) :
              (IntervalStart(word_labels[i]) < fixation.n
                    /\ fixation.n <= IntervalEnd(word_labels[i]))
                 => result = Return(PyStr(LabelOf(word_labels[i])))
        /\ (row_source = "scenario" /\ fixation.n \in {290, 295})
              => result = Return(PyStr("1.1"))
        /\ (row_source = "scenario" /\ fixation.n = 296)
              => result = Return(PyStr("1.2"))

\* a fixation on the right edge of a word that another word follows
C4_Witness ==
    /\ Returned
    /\ fixation.type = "int"
    /\ \E i \in 1..(Len(word_labels) - 1) :
          /\ fixation.n = IntervalEnd(word_labels[i])
          /\ result = Return(PyStr(LabelOf(word_labels[i])))

\* C5: on a non-empty map a numeric fixation below every endpoint resolves to
\* left and one above every endpoint to right.
C5_Sentinels ==
    (/\ pc = "current_fix_returned"
     /\ fixation.type = "int"
     /\ LiteralEval(WordPositions).outcome = "return"
     /\ DictOf(WordPositions) # <<>>)
        => /\ (\A e \in Endpoints(DictOf(WordPositions)) : fixation.n < e)
                 => result = Return(PyStr("left"))
           /\ (\A e \in Endpoints(DictOf(WordPositions)) : fixation.n > e)
                 => result = Return(PyStr("right"))

\* a fixation right of a two-interval map resolved to right
C5_Witness ==
    /\ pc = "current_fix_returned"
    /\ fixation.type = "int"
    /\ LiteralEval(WordPositions).outcome = "return"
    /\ Len(DictOf(WordPositions)) = 2
    /\ \A e \in Endpoints(DictOf(WordPositions)) : fixation.n > e
    /\ result = Return(PyStr("right"))

\* C6: on a non-empty map a fixation equal to the minimum endpoint resolves to 1.1.
C6_LeftEdge ==
    (/\ pc = "current_fix_returned"
     /\ fixation.type = "int"
     /\ LiteralEval(WordPositions).outcome = "return"
     /\ fixation.n \in Endpoints(DictOf(WordPositions))
     /\ \A e \in Endpoints(DictOf(WordPositions)) : fixation.n <= e)
        => result = Return(PyStr("1.1"))

\* a fixation on the left edge of a map whose first interval is not degenerate
C6_Witness ==
    /\ pc = "current_fix_returned"
    /\ fixation.type = "int"
    /\ LiteralEval(WordPositions).outcome = "return"
    /\ DictOf(WordPositions) # <<>>
    /\ fixation.n = IntervalStart(DictOf(WordPositions)[1])
    /\ fixation.n < IntervalEnd(DictOf(WordPositions)[1])
    /\ \A e \in Endpoints(DictOf(WordPositions)) : fixation.n <= e
    /\ result = Return(PyStr("1.1"))

\* C7: the fixation "." is returned unchanged whatever the positions text is.
C7_PassThrough ==
    (pc = "current_fix_returned" /\ fixation = PyStr("."))
        => result = Return(PyStr("."))

\* the sentinel passed with a positions text that does not parse
C7_Witness ==
    /\ pc = "current_fix_returned"
    /\ fixation = PyStr(".")
    /\ LiteralEval(WordPositions).outcome = "raise"
    /\ result = Return(PyStr("."))

\* number of characters and separating spaces of the words before the i-th
RECURSIVE WidthBefore(_, _, _)
WidthBefore(words, i, first) ==
    IF i <= 1 THEN 0
    ELSE WidthBefore(words, i - 1, first) + Len(words[i - 1])
            + (IF first /\ i - 1 = 1 THEN 0 ELSE 1)

\* what a word_labeller step does to the map and the cursor; on the scenario
\* row word 1.2 gets the interval (295, end_of_did)
WordIntervalLaw(end_of_did) ==
    \A r \in Regions :
        (RegionAt(pc) = r /\ pc' # pc) =>
            LET words == Split(Str(region_sentence'))
                n == Len(word_labels)
                first == (n = 0)
                startOf(i) == last_word_ending_pos + PPC * WidthBefore(words, i, first)
                extra(i) == IF first /\ i = 1 THEN 0 ELSE 1
            IN  /\ Len(word_labels') = n + Len(words)
                /\ \A i \in 1..n : word_labels'[i] = word_labels[i]
                /\ \A i \in 1..Len(words) :
                      /\ LabelOf(word_labels'[n + i]) = ToString(r) \o "." \o ToString(i)
                      /\ IntervalStart(word_labels'[n + i]) = startOf(i)
                      /\ IntervalEnd(word_labels'[n + i])
                            = startOf(i) + PPC * (Len(words[i]) + extra(i))
                /\ last_word_ending_pos' = startOf(Len(words) + 1)
                /\ (row_source = "scenario" /\ r = 1) =>
                      /\ word_labels'[1] = <<"1.1", PyTuple(281, 295)>>
                      /\ word_labels'[2] = <<"1.2", PyTuple(295, end_of_did)>>

\* C8 as stated: word_labeller(r, text) labels the index-th word of the text
\* r.index with the interval (cursor, cursor + PPC * (len(word) + extra)), extra
\* being 0 for the first word of the row only, and moves the cursor to the
\* interval's end; on the scenario row 1.1 = (281, 295) and 1.2 = (295, 323).
C8_AsStated == [][WordIntervalLaw(323)]_vars

\* C8 amended: the same law; on the scenario row 1.1 = (281, 295) and
\* 1.2 = (295, 351), since 295 + 14 * (3 + 1) = 351.
C8_WordIntervals == [][WordIntervalLaw(351)]_vars

\* a finished map whose first word is not in the beginning region and is
\* followed by another word
C8_Witness ==
    /\ pc = "return"
    /\ Len(word_labels) >= 2
    /\ LabelOf(word_labels[1]) = "2.1"
    /\ IntervalEnd(word_labels[1]) - IntervalStart(word_labels[1]) = PPC
    /\ IntervalEnd(word_labels[2]) - IntervalStart(word_labels[2]) = 2 * PPC

\* C9: whatever rows came before, the labelling of a row starts from the
\* cursor Offset with the extra-space flag 0 and an empty map, and the first
\* interval of the map starts at Offset.
C9_FirstIntervalAtOffset ==
    /\ pc = "word_labeller_1" =>
          (word_labels = <<>> /\ last_word_ending_pos = Offset /\ odd_space = 0)
    /\ word_labels # <<>> => IntervalStart(word_labels[1]) = Offset

\* the map of a row processed after another row, its first word placed
C9_Witness ==
    /\ rows_before
    /\ pc = "current_fix"
    /\ word_labels # <<>>
    /\ IntervalStart(word_labels[1]) = Offset

\* C10: for a numeric fixation the resolver, applied to the row's own map,
\* returns left, right or a label that is a key of that map.
C10_ResultWithinMap ==
    (Returned /\ fixation.type = "int") =>
        /\ result.outcome = "return"
        /\ \/ result.value \in {PyStr("left"), PyStr("right")}
           \/ /\ result.value.type = "str"
              /\ result.value.s \in DictKeys(word_labels)

====
